---- MODULE Spec2Model ----
(***************************************************************************)
(* Model of src/app/index.jsx: the redux "todos" slice (items) and the     *)
(* banner state of the TodosCard component (bannerVisible, bannerMessage,  *)
(* lastTodo, lastAction) and the auto-hide timers that showBanner          *)
(* schedules with setTimeout.                                              *)
(* The text input's state (title) is written by onChangeText before Add is *)
(* pressed and only read by handleAddTodo, so it is that handler's input   *)
(* (typed); setTitle("") empties the input for the next typing.            *)
(*                                                                         *)
(* Strings are sequences of one-character strings, so that trim and the    *)
(* banner's template literals are computed, not assumed.                   *)
(* nanoid() is a counter of fresh identifiers (nextId): two calls never    *)
(* return the same value.  Date.now() is an input drawn from Stamps.       *)
(* Pending timeouts are kept in creation order with the time each has      *)
(* left; all are created with the same delay, so they fire in that order.  *)
(* Time is advanced from one deadline to the next.                         *)
(* h is a history variable: the handler that ran last, its argument and    *)
(* the state it started from.                                              *)
(***************************************************************************)
EXTENDS Integers, Sequences, FiniteSets, TLC

VARIABLES items, bannerVisible, bannerMessage, lastTodo, lastAction,
          timers, nextId, h

vars == <<items, bannerVisible, bannerMessage, lastTodo, lastAction,
          timers, nextId, h>>

banner == <<bannerVisible, bannerMessage, lastTodo, lastAction>>

(* ------------------------------ bounds --------------------------------- *)

MaxTitleLen == 2      \* longest text typed into the input
MaxId == 4            \* nanoid() calls in a run
MaxStamp == 1         \* Date.now() values: 0..MaxStamp
MaxTimers == 2        \* timeouts pending at once

(* --------------------------- program constants ------------------------- *)

BannerMs == 3000

Chars == {"a", " "}
Titles == UNION {[1..n -> Chars] : n \in 0..MaxTitleLen}
Stamps == 0..MaxStamp

(* ------------------------------ strings -------------------------------- *)

IsSpace(c) == c = " "

RECURSIVE trimStart(_)
trimStart(s) ==
  IF s = <<>> THEN <<>>
  ELSE IF IsSpace(Head(s)) THEN trimStart(Tail(s)) ELSE s

RECURSIVE trimEnd(_)
trimEnd(s) ==
  IF s = <<>> THEN <<>>
  ELSE IF IsSpace(s[Len(s)]) THEN trimEnd(SubSeq(s, 1, Len(s) - 1)) ELSE s

\* the bug of testing the text as typed
trimNothing(s) == s

trim(s) == trimEnd(trimStart(s))

Quote == <<"\"">>
AddedMessage(t) == <<"A", "d", "d", "e", "d", ":", " ">> \o Quote \o t \o Quote
CompletedMessage(t) ==
  <<"C", "o", "m", "p", "l", "e", "t", "e", "d", ":", " ">> \o Quote \o t \o Quote

(* --------------------------- the todos slice --------------------------- *)

Todo(id, t, ts) == [id |-> id, title |-> t, done |-> FALSE, createdAt |-> ts]

\* the bug of an id that is not drawn afresh
prepareFixedId(t, id, ts) == Todo(1, t, ts)

\* addTodo.prepare: the payload gets an id of its own
prepare(t, id, ts) == Todo(id, t, ts)

\* the bug of push for unshift
addTodoPush(state, payload) == Append(state, payload)

\* addTodo.reducer: state.items.unshift(payload)
addTodo(state, payload) == <<payload>> \o state

\* the bug of falling back to the first record when find() finds none
toggleTodoFirstIfMissing(state, id) ==
  LET found == {i \in 1..Len(state) : state[i].id = id}
      k == IF found = {} THEN 1 ELSE CHOOSE i \in found : \A j \in found : i <= j
  IN IF state = <<>> THEN state
     ELSE [state EXCEPT ![k].done = ~state[k].done]

\* the bug of rebuilding the toggled record, with a new createdAt
toggleTodoRestamps(state, id) ==
  [i \in 1..Len(state) |->
     IF state[i].id = id
     THEN [state[i] EXCEPT !.done = ~state[i].done, !.createdAt = 0]
     ELSE state[i]]

\* the bug of todo.done = true for todo.done = !todo.done
toggleTodoSetsDone(state, id) ==
  [i \in 1..Len(state) |->
     IF state[i].id = id THEN [state[i] EXCEPT !.done = TRUE] ELSE state[i]]

toggleTodo(state, id) ==
  LET found == {i \in 1..Len(state) : state[i].id = id}
  IN IF found = {} THEN state
     ELSE LET k == CHOOSE i \in found : \A j \in found : i <= j
          IN [state EXCEPT ![k].done = ~state[k].done]

removeTodo(state, id) == SelectSeq(state, LAMBDA t : t.id # id)

clearTodos(state) == <<>>

(* ------------------------------ the lists ------------------------------ *)

undoneTodos == SelectSeq(items, LAMBDA todo : ~todo.done)

\* the bug of a filter copied without its negation removed
doneTodosNegated == SelectSeq(items, LAMBDA todo : ~todo.done)

doneTodos == SelectSeq(items, LAMBDA todo : todo.done)

(* ------------------------------ the banner ----------------------------- *)

Null == <<>>
NoAction == "none"

History(op, arg) ==
  [op |-> op, arg |-> arg, items |-> items, visible |-> bannerVisible,
   message |-> bannerMessage, todo |-> lastTodo, action |-> lastAction,
   timers |-> timers]

\* the four setters every hiding path calls
hideBanner ==
  /\ bannerVisible' = FALSE
  /\ lastTodo' = Null
  /\ lastAction' = NoAction
  /\ bannerMessage' = <<>>

\* the bug of a banner that schedules no timeout
showBannerNoTimeout(message, todo, action) ==
  /\ bannerMessage' = message
  /\ lastTodo' = <<todo>>
  /\ lastAction' = action
  /\ bannerVisible' = TRUE
  /\ timers' = timers

showBanner(message, todo, action) ==
  /\ bannerMessage' = message
  /\ lastTodo' = <<todo>>
  /\ lastAction' = action
  /\ bannerVisible' = TRUE
  /\ timers' = Append(timers, BannerMs)

(* ------------------------------ handlers ------------------------------- *)

\* typed is title, what onChangeText left in the input when Add is pressed.
\* now1 and now2 are the two reads of Date.now(), the handler's and
\* prepare's; nanoid() is read twice as well.
handleAddTodo(typed) ==
  IF trim(typed) = <<>>
  THEN /\ h' = History("add", typed)
       /\ UNCHANGED <<items, banner, timers, nextId>>
  ELSE /\ nextId + 1 <= MaxId
       /\ Len(timers) < MaxTimers
       /\ \E now1 \in Stamps : \E now2 \in now1..MaxStamp :
            LET newTodo == Todo(nextId, trim(typed), now1)
            IN /\ items' = addTodo(items, prepare(newTodo.title, nextId + 1, now2))
               /\ showBanner(AddedMessage(newTodo.title), newTodo, "add")
       /\ nextId' = nextId + 2
       /\ h' = History("add", typed)

\* the bug of leaving the banner alone when a record is un-completed
handleToggleDoneKeepsBanner(todo) ==
  /\ h' = History("toggle", <<todo>>)
  /\ items' = toggleTodo(items, todo.id)
  /\ IF ~todo.done
     THEN /\ Len(timers) < MaxTimers
          /\ showBanner(CompletedMessage(todo.title), todo, "done")
     ELSE UNCHANGED <<banner, timers>>
  /\ UNCHANGED <<nextId>>

handleToggleDone(todo) ==
  /\ h' = History("toggle", <<todo>>)
  /\ items' = toggleTodo(items, todo.id)
  /\ IF ~todo.done
     THEN /\ Len(timers) < MaxTimers
          /\ showBanner(CompletedMessage(todo.title), todo, "done")
     ELSE hideBanner /\ UNCHANGED timers
  /\ UNCHANGED <<nextId>>

handleRemove(todo) ==
  /\ h' = History("remove", <<todo>>)
  /\ items' = removeTodo(items, todo.id)
  /\ UNCHANGED <<banner, timers, nextId>>

\* the bug of Clear All also resetting the banner
handleClearHidesBanner ==
  /\ Len(items) > 0
  /\ h' = History("clear", <<>>)
  /\ items' = clearTodos(items)
  /\ hideBanner
  /\ UNCHANGED <<timers, nextId>>

handleClear ==
  /\ Len(items) > 0
  /\ h' = History("clear", <<>>)
  /\ items' = clearTodos(items)
  /\ UNCHANGED <<banner, timers, nextId>>

\* the bug of an undo that leaves its banner up
handleUndoKeepsBanner ==
  /\ h' = History("undo", <<>>)
  /\ IF lastTodo = Null \/ lastAction = NoAction
     THEN UNCHANGED items
     ELSE items' = IF lastAction = "add" THEN removeTodo(items, lastTodo[1].id)
                   ELSE IF lastAction = "done" THEN toggleTodo(items, lastTodo[1].id)
                   ELSE items
  /\ UNCHANGED <<banner, timers, nextId>>

handleUndo ==
  /\ h' = History("undo", <<>>)
  /\ IF lastTodo = Null \/ lastAction = NoAction
     THEN UNCHANGED <<items, banner>>
     ELSE /\ items' = IF lastAction = "add" THEN removeTodo(items, lastTodo[1].id)
                      ELSE IF lastAction = "done" THEN toggleTodo(items, lastTodo[1].id)
                      ELSE items
          /\ hideBanner
  /\ UNCHANGED <<timers, nextId>>

\* the bug of Dismiss wired to what Undo does
handleDismissReverting ==
  /\ h' = History("dismiss", <<>>)
  /\ IF lastTodo = Null \/ lastAction = NoAction
     THEN UNCHANGED items
     ELSE items' = IF lastAction = "add" THEN removeTodo(items, lastTodo[1].id)
                   ELSE toggleTodo(items, lastTodo[1].id)
  /\ hideBanner
  /\ UNCHANGED <<timers, nextId>>

handleDismiss ==
  /\ h' = History("dismiss", <<>>)
  /\ hideBanner
  /\ UNCHANGED <<items, timers, nextId>>

(* ------------------------------- timers -------------------------------- *)

\* time passes until the next pending timeout is due (none is overdue)
Tick ==
  /\ timers # <<>>
  /\ Head(timers) > 0
  /\ timers' = [i \in 1..Len(timers) |-> timers[i] - Head(timers)]
  /\ h' = History("tick", <<>>)
  /\ UNCHANGED <<items, banner, nextId>>

\* the bug of a callback that hides the banner and keeps what it was about
timeoutCallbackHidesOnly ==
  /\ timers # <<>>
  /\ Head(timers) = 0
  /\ timers' = Tail(timers)
  /\ bannerVisible' = FALSE
  /\ h' = History("timeout", <<>>)
  /\ UNCHANGED <<items, nextId, bannerMessage, lastTodo, lastAction>>

\* the setTimeout callback of showBanner, run when its delay has elapsed
timeoutCallback ==
  /\ timers # <<>>
  /\ Head(timers) = 0
  /\ timers' = Tail(timers)
  /\ hideBanner
  /\ h' = History("timeout", <<>>)
  /\ UNCHANGED <<items, nextId>>

(* ---------------------------- specification ---------------------------- *)

Init ==
  /\ items = <<>>
  /\ bannerVisible = FALSE
  /\ bannerMessage = <<>>
  /\ lastTodo = Null
  /\ lastAction = NoAction
  /\ timers = <<>>
  /\ nextId = 1
  /\ h = [op |-> "init", arg |-> <<>>, items |-> <<>>, visible |-> FALSE,
          message |-> <<>>, todo |-> Null, action |-> NoAction, timers |-> <<>>]

Next ==
  \/ \E typed \in Titles : handleAddTodo(typed)
  \/ \E i \in 1..Len(items) : handleToggleDone(items[i])
  \/ \E i \in 1..Len(items) : handleRemove(items[i])
  \/ handleClear
  \/ handleUndo
  \/ handleDismiss
  \/ Tick
  \/ timeoutCallback

Spec == Init /\ [][Next]_vars

\* the event loop runs a timeout whose delay has elapsed, and time passes
FairSpec == Spec /\ WF_vars(Tick) /\ WF_vars(timeoutCallback)

(* ------------------------- vocabulary of the claims -------------------- *)

Idle ==
  /\ ~bannerVisible
  /\ bannerMessage = <<>>
  /\ lastTodo = Null
  /\ lastAction = NoAction

Showing == bannerVisible

\* empty after trimming, said without trim: nothing but white space
IsBlank(s) == \A i \in 1..Len(s) : s[i] = " "

\* the last handler was handleAddTodo on a title that is not blank
AddedNow == h.op = "add" /\ ~IsBlank(h.arg)

Ids(state) == {state[i].id : i \in 1..Len(state)}

bannerBefore == <<h.visible, h.message, h.todo, h.action>>

(* -------------------------------- claims ------------------------------- *)

\* C1: add(title) with a non-blank title, followed by undo() while the banner
\* of that add is showing, removes the record the add inserted: the store is
\* again the store before the add and the controller is Idle.  (In the state
\* after the add, h.items is the store before the add.)
C1_UndoAddRestoresStore ==
  [][(AddedNow /\ Showing /\ h'.op = "undo") => (items' = h.items /\ Idle')]_vars

\* C2: right after an add the banner is Showing with lastAction = "add" and
\* lastTodo.id is the id of the first record of the store, the one inserted.
C2_BannerReferencesStoredRecord ==
  AddedNow =>
    /\ Showing
    /\ lastAction = "add"
    /\ lastTodo # Null
    /\ items # <<>>
    /\ lastTodo[1].id = items[1].id

\* C3: undo() while a Completed banner is showing puts the done flag of the
\* banner's record, which was true, back to false, changes no other record,
\* and leaves the controller Idle.
C3_UndoCompleteReverts ==
  (h.op = "undo" /\ h.visible /\ h.action = "done") =>
    /\ Idle
    /\ Len(items) = Len(h.items)
    /\ \A i \in 1..Len(h.items) :
         IF h.items[i].id = h.todo[1].id
         THEN h.items[i].done /\ items[i] = [h.items[i] EXCEPT !.done = FALSE]
         ELSE items[i] = h.items[i]

C3_Witness ==
  /\ h.op = "undo" /\ h.visible /\ h.action = "done"
  /\ Len(items) = 2
  /\ \E i \in 1..Len(items) :
       h.items[i].id = h.todo[1].id /\ h.items[i].done /\ ~items[i].done

\* C4: a stale timer never clears a newer banner: when a timeout fires that
\* is not the one scheduled last (the showing banner's own timeout is the one
\* scheduled last, and here it still has time left), the banner that is
\* showing stays showing.
C4_StaleTimerKeepsBanner ==
  (/\ h.op = "timeout"
   /\ h.visible
   /\ Len(h.timers) > 1
   /\ h.timers[Len(h.timers)] > 0) => (Showing /\ banner = bannerBefore)

\* C5: at most one dismissal timer is pending, and none when the controller
\* is Idle.
C5_AtMostOneTimer ==
  /\ Len(timers) <= 1
  /\ Idle => timers = <<>>

\* C6: every Showing state leads to Idle, given that pending timers fire, and
\* a timer expiry leaves the store as it was.
C6_ShowingLeadsToIdle ==
  /\ Showing ~> Idle
  /\ [](h.op = "timeout" => (Idle /\ items = h.items))

C6_Witness ==
  /\ h.op = "timeout" /\ h.visible /\ Len(h.timers) = 1
  /\ Idle /\ items # <<>>

\* C7: undo() while the controller is Idle changes neither the store nor the
\* controller (nor the pending timers).
C7_UndoWhenIdleIsNoOp ==
  (h.op = "undo" /\ ~h.visible) =>
    /\ items = h.items
    /\ banner = bannerBefore
    /\ Idle
    /\ timers = h.timers

C7_Witness ==
  /\ h.op = "undo" /\ ~h.visible
  /\ items # <<>>
  /\ \E i \in 1..Len(items) : items[i].done

\* C8: dismiss() leaves the controller Idle and the store unchanged.
C8_DismissKeepsStore ==
  h.op = "dismiss" => (Idle /\ items = h.items)

C8_Witness ==
  /\ h.op = "dismiss" /\ h.visible /\ h.action = "done"
  /\ Idle
  /\ \E i \in 1..Len(items) : items[i].id = h.todo[1].id /\ items[i].done

\* C9: add with a blank title changes neither the store nor the controller
\* and starts no timer.
C9_BlankAddRejected ==
  (h.op = "add" /\ IsBlank(h.arg)) =>
    /\ items = h.items
    /\ banner = bannerBefore
    /\ timers = h.timers

C9_Witness ==
  /\ h.op = "add" /\ IsBlank(h.arg) /\ h.arg # <<>>
  /\ h.visible /\ items # <<>>

\* C10: add with a non-blank title makes the store one longer; the new record
\* is first, with done = FALSE and an id no stored record had; the records
\* stored before follow it unchanged, in their order.
C10_AddPrepends ==
  AddedNow =>
    /\ Len(items) = Len(h.items) + 1
    /\ ~items[1].done
    /\ items[1].id \notin Ids(h.items)
    /\ Tail(items) = h.items

C10_Witness ==
  /\ AddedNow
  /\ Len(items) = 2
  /\ items[1].title # items[2].title

\* the last handler was handleToggleDone on a record that was not done
CompletedNow == h.op = "toggle" /\ ~h.arg[1].done

\* the last handler was handleToggleDone on a record that was done
UncompletedNow == h.op = "toggle" /\ h.arg[1].done

\* state with the done flag of the record id flipped, said without toggleTodo
Flipped(state, id) ==
  [i \in 1..Len(state) |->
     IF state[i].id = id
     THEN [id |-> state[i].id, title |-> state[i].title,
           done |-> ~state[i].done, createdAt |-> state[i].createdAt]
     ELSE state[i]]

\* C11: no two records of the store have the same id.
C11_UniqueIds ==
  \A i, j \in 1..Len(items) : items[i].id = items[j].id => i = j

C11_Witness ==
  /\ h.op = "add"
  /\ Len(items) = 2
  /\ items[1].id # items[2].id

\* C12: a toggle of a done record leaves the controller Idle, whatever banner
\* was showing, and flips the done flag of that record only.
C12_UncompleteGoesIdle ==
  UncompletedNow =>
    /\ Idle
    /\ items = Flipped(h.items, h.arg[1].id)
    /\ \E i \in 1..Len(items) : items[i].id = h.arg[1].id /\ ~items[i].done

C12_Witness ==
  /\ UncompletedNow
  /\ h.visible
  /\ Idle
  /\ Len(items) = 2

\* C13: the controller enters Showing, or shows another banner, only by an
\* add of a non-blank title or a toggle of a record that was not done;
\* remove and clear leave visible, message, lastTodo and lastAction alone.
C13_OnlyAddAndCompleteShow ==
  /\ (Showing /\ banner # bannerBefore) => (AddedNow \/ CompletedNow)
  /\ h.op \in {"remove", "clear"} => banner = bannerBefore

C13_Witness ==
  /\ h.op = "clear"
  /\ Showing
  /\ lastAction = "done"
  /\ items = <<>>

\* C14: toggleTodo and removeTodo of an id that is not in the store leave the
\* store as it is; undo() of a banner whose record is not in the store (it
\* was removed, or the store was cleared) leaves the store unchanged and the
\* controller Idle.
C14_MissingIdIsNoOp ==
  /\ \A id \in (1..MaxId) \ Ids(items) :
       toggleTodo(items, id) = items /\ removeTodo(items, id) = items
  /\ (h.op = "undo" /\ h.visible /\ h.todo[1].id \notin Ids(h.items)) =>
       (items = h.items /\ Idle)

C14_Witness ==
  /\ h.op = "undo" /\ h.visible /\ h.action = "done"
  /\ h.todo[1].id \notin Ids(h.items)
  /\ items # <<>>
  /\ Idle

\* C15: toggleTodo of an id that is in the store flips the done flag of that
\* record only, and applied twice gives the store back.
C15_ToggleTwiceIsIdentity ==
  \A id \in Ids(items) :
    /\ toggleTodo(items, id) = Flipped(items, id)
    /\ toggleTodo(items, id) # items
    /\ toggleTodo(toggleTodo(items, id), id) = items

\* a second toggle of the same record has just given back the store of
\* before the first
C15_Witness ==
  /\ UncompletedNow
  /\ Len(items) = 2
  /\ \E i \in 1..Len(items) : items[i].done
  /\ toggleTodo(h.items, h.arg[1].id) = items
  /\ toggleTodo(items, h.arg[1].id) = h.items

\* C16: only the most recent bannered action is undoable: when a bannered
\* action Y has followed a bannered action X whose banner was still showing,
\* undo() gives back the store of before Y (with what X did to it) and leaves
\* the controller Idle, and an undo() right after an undo() changes nothing.
C16_UndoReversesLastOnly ==
  [][/\ ((AddedNow \/ CompletedNow) /\ h.visible /\ Showing /\ h'.op = "undo")
        => (items' = h.items /\ Idle')
     /\ (h.op = "undo" /\ h'.op = "undo")
        => (items' = items /\ banner' = banner)]_vars

\* sub is a subsequence of the store, in the store's order
KeepsOrder(sub) ==
  \E f \in [1..Len(sub) -> 1..Len(items)] :
    /\ \A i \in 1..Len(sub) : items[f[i]] = sub[i]
    /\ \A i, j \in 1..Len(sub) : i < j => f[i] < f[j]

InList(todo, list) == \E i \in 1..Len(list) : list[i] = todo

\* C17: the pending list and the done list partition the store: every record
\* is in exactly one of them, the pending one iff its done is false, and each
\* list keeps the order of the store.
C17_ListsPartitionStore ==
  /\ \A i \in 1..Len(items) :
       /\ InList(items[i], undoneTodos) <=> ~items[i].done
       /\ InList(items[i], doneTodos) <=> items[i].done
  /\ Len(undoneTodos) + Len(doneTodos) = Len(items)
  /\ KeepsOrder(undoneTodos)
  /\ KeepsOrder(doneTodos)

C17_Witness ==
  /\ h.op = "toggle"
  /\ Len(undoneTodos) = 1
  /\ Len(doneTodos) = 1
  /\ items[1].done

\* C18: an operation changes neither the title nor the createdAt of a record
\* that stays in the store (a record is known by its id), and no stored
\* title is blank.
C18_RecordsKeepTitleAndStamp ==
  /\ \A i \in 1..Len(items) : ~IsBlank(items[i].title)
  /\ \A i \in 1..Len(items) : \A j \in 1..Len(h.items) :
       items[i].id = h.items[j].id =>
         /\ items[i].title = h.items[j].title
         /\ items[i].createdAt = h.items[j].createdAt

C18_Witness ==
  /\ h.op = "toggle"
  /\ \E i \in 1..Len(items) :
       /\ items[i].id = h.arg[1].id
       /\ items[i].createdAt = MaxStamp
       /\ items[i].done # h.arg[1].done
       /\ items[i].title = h.arg[1].title

\* C19: the four banner fields agree, and the message is the one of the
\* action and of lastTodo's title.
C19_BannerFieldsAgree ==
  /\ bannerVisible <=> lastTodo # Null
  /\ bannerVisible <=> lastAction # NoAction
  /\ bannerVisible <=> bannerMessage # <<>>
  /\ lastAction \in {NoAction, "add", "done"}
  /\ lastAction = "add" => bannerMessage = AddedMessage(lastTodo[1].title)
  /\ lastAction = "done" => bannerMessage = CompletedMessage(lastTodo[1].title)

C19_Witness ==
  /\ Showing
  /\ lastAction = "done"
  /\ h.op = "remove"
  /\ bannerMessage = CompletedMessage(<<"a", "a">>)

\* C20: while a Completed banner is showing whose record is in the store,
\* that record is done; and undo() takes no record from not done to done.
C20_CompletedRecordIsDone ==
  /\ (Showing /\ lastAction = "done") =>
       \A i \in 1..Len(items) : items[i].id = lastTodo[1].id => items[i].done
  /\ h.op = "undo" =>
       \A i \in 1..Len(items) : \A j \in 1..Len(h.items) :
         (items[i].id = h.items[j].id /\ ~h.items[j].done) => ~items[i].done

C20_Witness ==
  /\ h.op = "undo" /\ h.action = "done"
  /\ Len(items) = 1
  /\ items[1].id = h.todo[1].id
  /\ h.items[1].done /\ ~items[1].done

====
